---- MODULE Spec2Model ----
(***************************************************************************)
(* Model of the MarketSenseAI analysis orchestration engine:               *)
(*   - SynthesisAgent (application/agents/synthesis_agent.py): fan-out to  *)
(*     the three specialists, the deterministic merge and the Analysis     *)
(*     entity;                                                             *)
(*   - AnalysisService (application/services/analysis_service.py): the     *)
(*     result cache and its key;                                           *)
(*   - ConversationManager (application/services/conversation_manager.py). *)
(*                                                                         *)
(* Representation.  A text is a sequence of one-character strings, so that *)
(* substring tests, lower-casing and joining are computed.  A Python dict  *)
(* is a function from key strings to values; an absent key is a key that   *)
(* is not in the DOMAIN.  A confidence is an integer number of hundredths  *)
(* (0.75 is 75); the mean of three confidences is kept as their sum (in    *)
(* three-hundredths), so that thresholds are compared exactly.  An         *)
(* optional value is a sequence of length 0 (None) or 1.                   *)
(***************************************************************************)
EXTENDS Integers, Sequences, FiniteSets, TLC

\* ------------------------------------------------------------------ texts

Contains(t, k) ==
    \E i \in 0..(Len(t) - Len(k)) : SubSeq(t, i + 1, i + Len(k)) = k

LowerChar(c) ==
    CASE c = "B" -> "b"
      [] c = "E" -> "e"
      [] c = "U" -> "u"
      [] c = "S" -> "s"
      [] c = "M" -> "m"
      [] c = "T" -> "t"
      [] c = "A" -> "a"
      [] OTHER -> c

Lower(t) == [i \in 1..Len(t) |-> LowerChar(t[i])]

None == <<>>

Some(x) == <<x>>

EmptyDict == [k \in {} |-> k]

Agents == {"macro", "technical", "sentiment"}

\* ------------------------------------------------------- synthesis_agent.py

_safe_get(obj, key, default) ==
    IF key \in DOMAIN obj THEN obj[key] ELSE default

BullishKeywords ==
    { <<"b", "u", "l", "l">>,
      <<"p", "o", "s", "i", "t", "i", "v", "e">>,
      <<"u", "p">>,
      <<"h", "i", "g", "h", "e", "r">>,
      <<"r", "a", "l", "l", "y">> }

BearishKeywords ==
    { <<"b", "e", "a", "r">>,
      <<"n", "e", "g", "a", "t", "i", "v", "e">>,
      <<"d", "o", "w", "n">>,
      <<"l", "o", "w", "e", "r">>,
      <<"s", "e", "l", "l">> }

\* the two keyword tests in the other order
ClassifyBearishFirst(text) ==
    IF text = <<>> THEN "neutral"
    ELSE LET t == Lower(text)
         IN  IF \E k \in BearishKeywords : Contains(t, k) THEN "bearish"
             ELSE IF \E k \in BullishKeywords : Contains(t, k) THEN "bullish"
             ELSE "neutral"

_classify_text_to_direction(text) ==
    IF text = <<>> THEN "neutral"
    ELSE LET t == Lower(text)
         IN  IF \E k \in BullishKeywords : Contains(t, k) THEN "bullish"
             ELSE IF \E k \in BearishKeywords : Contains(t, k) THEN "bearish"
             ELSE "neutral"

\* the key of the directional field each specialist is asked for
DirectionKey ==
    [macro |-> "outlook", technical |-> "trend", sentiment |-> "sentiment_label"]

DirectionOf(a, result) ==
    _classify_text_to_direction(
        _safe_get(result, DirectionKey[a], _safe_get(result, "summary", <<>>)))

DefaultConfidence == 50

\* float(_safe_get(r, "confidence", 0.5) or 0.5): a reported 0 is falsy
ConfOf(result) ==
    LET c == _safe_get(result, "confidence", DefaultConfidence)
    IN  IF c = 0 THEN DefaultConfidence ELSE c

CountDir(directions, d) ==
    Cardinality({i \in 1..Len(directions) : directions[i] = d})

\* a vote in which a tie goes to bullish
FinalOutlookTieBullish(directions) ==
    IF CountDir(directions, "bullish") >= CountDir(directions, "bearish")
    THEN "bullish" ELSE "bearish"

FinalOutlook(directions) ==
    LET bullish_count == CountDir(directions, "bullish")
        bearish_count == CountDir(directions, "bearish")
    IN  IF bullish_count > bearish_count THEN "bullish"
        ELSE IF bearish_count > bullish_count THEN "bearish"
        ELSE "neutral"

\* a mapping with the intermediate actions of the system prompt
TradingActionStrong(final_outlook) ==
    IF final_outlook = "bullish" THEN "strong_buy"
    ELSE IF final_outlook = "bearish" THEN "sell"
    ELSE "wait"

TradingActionOf(final_outlook) ==
    IF final_outlook = "bullish" THEN "buy"
    ELSE IF final_outlook = "bearish" THEN "sell"
    ELSE "hold"

LargeThreshold == 75

MediumThreshold == 60

\* avg_conf3 is avg_conf * 3, in hundredths
PositionSizing(avg_conf3) ==
    IF avg_conf3 >= 3 * LargeThreshold THEN "large"
    ELSE IF avg_conf3 >= 3 * MediumThreshold THEN "medium"
    ELSE "small"

Whitespace == {" ", "\t", "\n", "\r"}

\* not it.strip(): nothing but whitespace
IsBlank(s) == \A i \in 1..Len(s) : s[i] \in Whitespace

\* a merge that keeps every non-blank entry, repeated or not
RECURSIVE AppendAll(_, _)
AppendAll(items, field_value) ==
    IF field_value = <<>> THEN items
    ELSE AppendAll(IF ~IsBlank(Head(field_value))
                   THEN Append(items, Head(field_value)) ELSE items,
                   Tail(field_value))

RECURSIVE AppendNew(_, _)
AppendNew(items, field_value) ==
    IF field_value = <<>> THEN items
    ELSE LET it == Head(field_value)
         IN  AppendNew(
                 IF ~IsBlank(it) /\ ~(\E i \in 1..Len(items) : items[i] = it)
                 THEN Append(items, it) ELSE items,
                 Tail(field_value))

_collect_list(field, macro, technical, sentiment) ==
    AppendNew(AppendNew(AppendNew(<<>>, _safe_get(macro, field, <<>>)),
                        _safe_get(technical, field, <<>>)),
              _safe_get(sentiment, field, <<>>))

\* round(avg_conf, 4) in ten-thousandths: the nearest integer to avg_conf3 * 100 / 3
Round4(avg_conf3) == (200 * avg_conf3 + 3) \div 6

\* round(avg_conf, 2) in hundredths: the nearest integer to avg_conf3 / 3;
\* texts hold it as the decimal string of that number of hundredths
Round2(avg_conf3) == (2 * avg_conf3 + 3) \div 6

\* first sentence of a summary, cut to max_words words
FirstPart(text) ==
    IF \E i \in 1..Len(text) : text[i] = "."
    THEN SubSeq(text, 1, (CHOOSE i \in 1..Len(text) :
                             /\ text[i] = "."
                             /\ \A j \in 1..(i - 1) : text[j] # ".") - 1)
    ELSE text

RECURSIVE Strip(_)
Strip(t) ==
    IF t = <<>> THEN t
    ELSE IF Head(t) = " " THEN Strip(Tail(t))
    ELSE IF t[Len(t)] = " " THEN Strip(SubSeq(t, 1, Len(t) - 1))
    ELSE t

\* text.split(): the maximal runs of non-blank characters
RECURSIVE SplitWords(_, _, _)
SplitWords(t, cur, acc) ==
    IF t = <<>> THEN (IF cur = <<>> THEN acc ELSE Append(acc, cur))
    ELSE IF Head(t) = " "
         THEN SplitWords(Tail(t), <<>>, IF cur = <<>> THEN acc ELSE Append(acc, cur))
         ELSE SplitWords(Tail(t), Append(cur, Head(t)), acc)

RECURSIVE StrJoin(_, _)
StrJoin(parts, sep) ==
    IF parts = <<>> THEN <<>>
    ELSE IF Len(parts) = 1 THEN parts[1]
    ELSE parts[1] \o sep \o StrJoin(Tail(parts), sep)

MaxWords == 40

_short(text) ==
    IF text = <<>> THEN <<>>
    ELSE LET first == Strip(FirstPart(text))
             words == SplitWords(first, <<>>, <<>>)
         IN  IF Len(words) <= MaxWords THEN first \o <<".">>
             ELSE StrJoin(SubSeq(words, 1, MaxWords), <<" ">>) \o <<".", ".", ".">>

_synthesize_results(macro, technical, sentiment) ==
    LET directions == << DirectionOf("macro", macro),
                         DirectionOf("technical", technical),
                         DirectionOf("sentiment", sentiment) >>
        final_outlook == FinalOutlook(directions)
        trading_action == TradingActionOf(final_outlook)
        avg_conf3 == ConfOf(macro) + ConfOf(technical) + ConfOf(sentiment)
        position_sizing == PositionSizing(avg_conf3)
        mac_short == _short(_safe_get(macro, "summary", <<>>))
        tech_short == _short(_safe_get(technical, "summary", <<>>))
        sent_short == _short(_safe_get(sentiment, "summary", <<>>))
        executive_summary ==
            << "Technical analysis summary: " >> \o tech_short
            \o << "\n", "Macro analyst summary: " >> \o mac_short
            \o << "\n", "Sentiment analyst summary: " >> \o sent_short
            \o << "\n", "Final: Outlook=", final_outlook, ". Recommendation=",
                  trading_action, " (position=", position_sizing, "; confidence=",
                  ToString(Round2(avg_conf3)), ")." >>
    IN  [ sections |-> [macro |-> macro, technical |-> technical,
                        sentiment |-> sentiment],
          executive_summary |-> executive_summary,
          outlook |-> final_outlook,
          trading_action |-> trading_action,
          position_sizing |-> position_sizing,
          entry_points |-> <<>>,
          time_horizon |-> "medium",
          bullish_factors |-> _collect_list("bullish_factors", macro, technical, sentiment),
          bearish_factors |-> _collect_list("bearish_factors", macro, technical, sentiment),
          critical_factors |-> _collect_list("critical_factors", macro, technical, sentiment),
          key_risks |-> _collect_list("key_risks", macro, technical, sentiment),
          risk_mitigations |-> _collect_list("risk_mitigations", macro, technical, sentiment),
          confidence |-> Round4(avg_conf3),
          technical_analysis_summary |-> tech_short,
          macro_analysis_summary |-> mac_short,
          sentiment_analysis_summary |-> sent_short,
          final_response |->
              << "Outlook: ", final_outlook, ". Action: ", trading_action,
                 ". Position: ", position_sizing, ". Confidence: ",
                 ToString(Round2(avg_conf3)), "." >> ]


DefaultAgentName ==
    [ macro |-> <<"M", "a", "c", "r", "o", " ", "A", "n", "a", "l", "y", "s", "t">>,
      technical |-> <<"T", "e", "c", "h", "n", "i", "c", "a", "l", " ",
                      "A", "n", "a", "l", "y", "s", "t">>,
      sentiment |-> <<"S", "e", "n", "t", "i", "m", "e", "n", "t", " ",
                      "A", "n", "a", "l", "y", "s", "t">> ]

AgentAnalysis(a, result) ==
    [ agent_name |-> _safe_get(result, "agent_name", DefaultAgentName[a]),
      summary |-> _safe_get(result, "summary", <<>>),
      confidence |-> _safe_get(result, "confidence", DefaultConfidence),
      key_factors |-> _safe_get(result, "key_factors", <<>>) ]

VeryLowBelow == 20

LowBelow == 40

MediumBelow == 60

HighBelow == 80

\* a bucketing whose boundary values fall in the lower band
RiskLevelInclusive(risk_score3) ==
    IF risk_score3 <= 3 * VeryLowBelow THEN "very_low"
    ELSE IF risk_score3 <= 3 * LowBelow THEN "low"
    ELSE IF risk_score3 <= 3 * MediumBelow THEN "medium"
    ELSE IF risk_score3 <= 3 * HighBelow THEN "high"
    ELSE "very_high"

\* risk_score3 is risk_score * 3, in hundredths
_get_risk_level(risk_score3) ==
    IF risk_score3 < 3 * VeryLowBelow THEN "very_low"
    ELSE IF risk_score3 < 3 * LowBelow THEN "low"
    ELSE IF risk_score3 < 3 * MediumBelow THEN "medium"
    ELSE IF risk_score3 < 3 * HighBelow THEN "high"
    ELSE "very_high"

\* overall_confidence3 is overall_confidence * 3 (the sum of the three confidences)
_create_analysis_entity(query, asset_symbol, synthesis, macro_result, technical_result, sentiment_result) ==
    LET overall_confidence3 ==
            _safe_get(macro_result, "confidence", DefaultConfidence)
            + _safe_get(technical_result, "confidence", DefaultConfidence)
            + _safe_get(sentiment_result, "confidence", DefaultConfidence)
        risk_score3 == 300 - overall_confidence3
    IN  [ query |-> query,
          asset_symbol |-> asset_symbol,
          executive_summary |-> synthesis.executive_summary,
          outlook |-> synthesis.outlook,
          overall_confidence3 |-> overall_confidence3,
          risk_level |-> _get_risk_level(risk_score3),
          risk_score3 |-> risk_score3,
          trading_action |-> synthesis.trading_action,
          position_sizing |-> synthesis.position_sizing,
          bullish_factors |-> synthesis.bullish_factors,
          bearish_factors |-> synthesis.bearish_factors,
          critical_factors |-> synthesis.critical_factors,
          key_risks |-> synthesis.key_risks,
          risk_mitigations |-> synthesis.risk_mitigations,
          macro_analysis |-> AgentAnalysis("macro", macro_result),
          technical_analysis |-> AgentAnalysis("technical", technical_result),
          sentiment_analysis |-> AgentAnalysis("sentiment", sentiment_result) ]

\* ------------------------------------------------------ analysis_service.py

SessionPrefix == <<"s", "e", "s", "s", "i", "o", "n", ":">>

ConversationPrefix ==
    <<"c", "o", "n", "v", "e", "r", "s", "a", "t", "i", "o", "n", ":">>

CtxAssetPrefix == <<"c", "t", "x", "_", "a", "s", "s", "e", "t", ":">>

\* timeframe and context are optional: None or Some(value).  The key is the
\* joined string; hashlib.md5 is taken to be injective on the strings met.
_generate_cache_key(query, asset_symbol, timeframe, context) ==
    LET ctx == IF context = None THEN EmptyDict ELSE context[1]
        key_parts ==
            << query, asset_symbol >>
            \o (IF timeframe # None THEN << timeframe[1] >> ELSE <<>>)
            \o (IF "session_id" \in DOMAIN ctx
                THEN << SessionPrefix \o ctx["session_id"] >> ELSE <<>>)
            \o (IF "conversation_id" \in DOMAIN ctx
                THEN << ConversationPrefix \o ctx["conversation_id"] >> ELSE <<>>)
            \o (IF "asset_symbol" \in DOMAIN ctx /\ ctx["asset_symbol"] # asset_symbol
                THEN << CtxAssetPrefix \o ctx["asset_symbol"] >> ELSE <<>>)
    IN  StrJoin(key_parts, <<":">>)


\* self.cache.get(cache_key): the value of the entry, or None
CacheGet(c, key) == IF key \in DOMAIN c THEN Some(c[key].value) ELSE None

\* a lookup whose result is ignored
CacheHitNever(cached) == FALSE

\* "if cached:" -- an entry was found (a cached Analysis dict is never empty)
CacheHit(cached) == cached # None

\* a write that is dropped
CacheSetDropped(c, key, value, ttl) == c

\* self.cache.set(key, value, ttl=...): an entry is the value and its time to
\* live in seconds
CacheSet(c, key, value, ttl) ==
    [k \in DOMAIN c \cup {key} |->
        IF k = key THEN [ value |-> value, ttl |-> ttl ] ELSE c[k]]

\* "ttl=1800  # Cache for 30 minutes"
ResultTtl == 1800

\* a cache write whose entry never expires
CacheResultForever(c, cache_key, analysis) == CacheSet(c, cache_key, analysis, 0)

\* analyze: self.cache.set(cache_key, analysis.to_dict(), ttl=1800)
CacheResult(c, cache_key, analysis) == CacheSet(c, cache_key, analysis, ResultTtl)

\* AnalysisService.cache_analysis(analysis): the cache after it
cache_analysis(c, analysis) ==
    CacheSet(c, _generate_cache_key(analysis.query, analysis.asset_symbol, None, None),
             analysis, ResultTtl)

\* ------------------------------------------------- conversation_manager.py

\* Time is counted in days.  A call is made in an environment env =
\* [now |-> the day, failing |-> the session ids for which a call to the store
\* raises]; the store maps a key to [value, expires_at].

SESSION_EXPIRY == 7

Env(day, failing) == [ now |-> day, failing |-> failing ]

SessionKey(session_id) == SessionPrefix \o session_id

\* ConversationSession(session_id=..., user_id=...): the two timestamps
\* default to the time of construction
NewSession(session_id, user_id, day) ==
    [ session_id |-> session_id, user_id |-> user_id, created_at |-> day,
      last_accessed |-> day, conversations |-> EmptyDict ]

NewContext(conversation_id, user_id, asset_symbol) ==
    [ conversation_id |-> conversation_id, user_id |-> user_id,
      asset_symbol |-> asset_symbol, messages |-> <<>>,
      previous_outlook |-> None, previous_confidence |-> None,
      previous_action |-> None ]

\* ConversationSession.get_or_create_conversation
SessionGetOrCreateConversation(session, conversation_id, asset_symbol) ==
    IF conversation_id \in DOMAIN session.conversations THEN session
    ELSE [session EXCEPT !.conversations =
              (conversation_id :> NewContext(conversation_id, session.user_id,
                                             asset_symbol)) @@ @]

\* ConversationContext.add_message
ContextAddMessage(conversation, role, content, metadata) ==
    [conversation EXCEPT !.messages =
         Append(@, [role |-> role, content |-> content, metadata |-> metadata])]

RECURSIVE RenderMessages(_)
RenderMessages(messages) ==
    IF messages = <<>> THEN <<>>
    ELSE << Head(messages).role, ": " >> \o Head(messages).content \o << "\n" >>
         \o RenderMessages(Tail(messages))

\* ConversationContext.get_context_summary
ContextSummary(conversation) ==
    << "Asset: " >> \o conversation.asset_symbol \o << "\n" >>
    \o (IF conversation.previous_outlook # None
        THEN << "Previous outlook: ", conversation.previous_outlook[1],
                " confidence: ", ToString(conversation.previous_confidence[1]),
                " action: ", conversation.previous_action[1], "\n" >>
        ELSE <<>>)
    \o RenderMessages(conversation.messages)

\* a write that leaves the entry's old expiry in place
PersistKeepingExpiry(store, session, env) ==
    IF session.session_id \in env.failing THEN store
    ELSE [k \in DOMAIN store \cup {SessionKey(session.session_id)} |->
             IF k = SessionKey(session.session_id)
             THEN [ value |-> session,
                    expires_at |-> IF k \in DOMAIN store THEN store[k].expires_at
                                   ELSE env.now + SESSION_EXPIRY ]
             ELSE store[k]]

\* redis_client.setex(session_key, SESSION_EXPIRY, session_data); an exception
\* is logged and the store is left as it was
_persist_session(store, session, env) ==
    IF session.session_id \in env.failing THEN store
    ELSE [k \in DOMAIN store \cup {SessionKey(session.session_id)} |->
             IF k = SessionKey(session.session_id)
             THEN [ value |-> session, expires_at |-> env.now + SESSION_EXPIRY ]
             ELSE store[k]]

\* redis_client.get(session_key) and the reconstruction; an exception is
\* logged and None returned
_load_session(store, env, session_id) ==
    IF session_id \notin env.failing /\ SessionKey(session_id) \in DOMAIN store
    THEN Some(store[SessionKey(session_id)].value) ELSE None

\* the in-memory table after get_session(session_id): a session found only in
\* the store is put into the table
SessionsAfterGet(sessions, store, env, session_id) ==
    IF session_id \in DOMAIN sessions THEN sessions
    ELSE IF _load_session(store, env, session_id) # None
    THEN [k \in DOMAIN sessions \cup {session_id} |->
             IF k = session_id THEN _load_session(store, env, session_id)[1]
             ELSE sessions[k]]
    ELSE sessions

get_session(sessions, store, env, session_id) ==
    LET after == SessionsAfterGet(sessions, store, env, session_id)
    IN  IF session_id \in DOMAIN after THEN Some(after[session_id]) ELSE None

get_conversation(sessions, store, env, session_id, conversation_id) ==
    LET session == get_session(sessions, store, env, session_id)
    IN  IF session = None \/ conversation_id \notin DOMAIN session[1].conversations
        THEN None
        ELSE Some(session[1].conversations[conversation_id])

\* The operations below return [ok, sessions, store]: ok = FALSE is the raised
\* ValueError, sessions and store are the two tables after the call.
create_session(sessions, store, env, session_id, user_id) ==
    LET session == NewSession(session_id, user_id, env.now)
    IN  [ ok |-> TRUE,
          sessions |-> [k \in DOMAIN sessions \cup {session_id} |->
                           IF k = session_id THEN session ELSE sessions[k]],
          store |-> _persist_session(store, session, env) ]

create_conversation(sessions, store, env, session_id, asset_symbol, conversation_id) ==
    LET after == SessionsAfterGet(sessions, store, env, session_id)
    IN  IF get_session(sessions, store, env, session_id) = None
        THEN [ ok |-> FALSE, sessions |-> after, store |-> store ]
        ELSE LET session == SessionGetOrCreateConversation(
                                after[session_id], conversation_id, asset_symbol)
             IN  [ ok |-> TRUE,
                   sessions |-> [after EXCEPT ![session_id] = session],
                   store |-> _persist_session(store, session, env) ]

\* an append that puts the new message in front of the earlier ones
AddMessagePrepending(sessions, store, env, session_id, conversation_id, role, content, metadata) ==
    LET after == SessionsAfterGet(sessions, store, env, session_id)
    IN  IF get_session(sessions, store, env, session_id) = None
        THEN [ ok |-> FALSE, sessions |-> after, store |-> store ]
        ELSE IF conversation_id \notin DOMAIN after[session_id].conversations
        THEN [ ok |-> FALSE, sessions |-> after, store |-> store ]
        ELSE LET session ==
                     [after[session_id] EXCEPT !.conversations[conversation_id].messages =
                          << [role |-> role, content |-> content,
                              metadata |-> metadata] >> \o @]
             IN  [ ok |-> TRUE,
                   sessions |-> [after EXCEPT ![session_id] = session],
                   store |-> _persist_session(store, session, env) ]

\* an append that works on the session as the store has it, when the store
\* has it, and puts the result in the table
AddMessageFromStore(sessions, store, env, session_id, conversation_id, role, content, metadata) ==
    LET loaded == IF _load_session(store, env, session_id) # None
                  THEN _load_session(store, env, session_id)
                  ELSE get_session(sessions, store, env, session_id)
    IN  IF loaded = None \/ conversation_id \notin DOMAIN loaded[1].conversations
        THEN [ ok |-> FALSE, sessions |-> sessions, store |-> store ]
        ELSE LET session ==
                     [loaded[1] EXCEPT !.conversations[conversation_id] =
                          ContextAddMessage(@, role, content, metadata)]
             IN  [ ok |-> TRUE,
                   sessions |-> [k \in DOMAIN sessions \cup {session_id} |->
                                    IF k = session_id THEN session ELSE sessions[k]],
                   store |-> _persist_session(store, session, env) ]

\* an append that opens the conversation when the session does not have it
AddMessageUpsert(sessions, store, env, session_id, conversation_id, role, content, metadata) ==
    LET after == SessionsAfterGet(sessions, store, env, session_id)
    IN  IF get_session(sessions, store, env, session_id) = None
        THEN [ ok |-> FALSE, sessions |-> after, store |-> store ]
        ELSE LET opened == SessionGetOrCreateConversation(after[session_id],
                                                          conversation_id, <<>>)
                 session ==
                     [opened EXCEPT !.conversations[conversation_id] =
                          ContextAddMessage(@, role, content, metadata)]
             IN  [ ok |-> TRUE,
                   sessions |-> [after EXCEPT ![session_id] = session],
                   store |-> _persist_session(store, session, env) ]

add_message(sessions, store, env, session_id, conversation_id, role, content, metadata) ==
    LET after == SessionsAfterGet(sessions, store, env, session_id)
    IN  IF get_session(sessions, store, env, session_id) = None
        THEN [ ok |-> FALSE, sessions |-> after, store |-> store ]
        ELSE IF conversation_id \notin DOMAIN after[session_id].conversations
        THEN [ ok |-> FALSE, sessions |-> after, store |-> store ]
        ELSE LET session ==
                     [after[session_id] EXCEPT !.conversations[conversation_id] =
                          ContextAddMessage(@, role, content, metadata)]
             IN  [ ok |-> TRUE,
                   sessions |-> [after EXCEPT ![session_id] = session],
                   store |-> _persist_session(store, session, env) ]

\* conversation.messages[-limit:]
LastMessages(messages, limit) ==
    LET n == Len(messages)
        start == IF limit > 0 THEN (IF n - limit > 0 THEN n - limit ELSE 0)
                 ELSE IF -limit < n THEN -limit ELSE n
    IN  SubSeq(messages, start + 1, n)

DefaultLimit == 50

get_conversation_history(sessions, store, env, session_id, conversation_id, limit) ==
    LET conversation == get_conversation(sessions, store, env, session_id, conversation_id)
    IN  IF conversation = None THEN <<>>
        ELSE LastMessages(conversation[1].messages, limit)

update_conversation_context(sessions, store, env, session_id, conversation_id, outlook, confidence, action) ==
    LET after == SessionsAfterGet(sessions, store, env, session_id)
    IN  IF get_conversation(sessions, store, env, session_id, conversation_id) = None
        THEN [ ok |-> FALSE, sessions |-> after, store |-> store ]
        ELSE LET session ==
                     [after[session_id] EXCEPT !.conversations[conversation_id] =
                          [@ EXCEPT !.previous_outlook = Some(outlook),
                                    !.previous_confidence = Some(confidence),
                                    !.previous_action = Some(action)]]
             IN  [ ok |-> TRUE,
                   sessions |-> [after EXCEPT ![session_id] = session],
                   store |-> _persist_session(store, session, env) ]

\* a context text rendered for a conversation without messages too
ContextInjectionAlways(sessions, store, env, session_id, conversation_id) ==
    LET conversation == get_conversation(sessions, store, env, session_id, conversation_id)
    IN  IF conversation = None THEN <<>> ELSE ContextSummary(conversation[1])

get_context_injection(sessions, store, env, session_id, conversation_id) ==
    LET conversation == get_conversation(sessions, store, env, session_id, conversation_id)
    IN  IF conversation = None \/ conversation[1].messages = <<>> THEN <<>>
        ELSE ContextSummary(conversation[1])

\* the session leaves the table; the store's delete is tried and an exception
\* from it is logged
delete_session(sessions, store, env, session_id) ==
    [ ok |-> TRUE,
      sessions |-> [k \in DOMAIN sessions \ {session_id} |-> sessions[k]],
      store |-> IF session_id \in env.failing THEN store
                ELSE [k \in DOMAIN store \ {SessionKey(session_id)} |-> store[k]] ]

\* a sweep that ends at the first session whose store delete raises
RECURSIVE DeleteEachUntilFailure(_, _, _, _)
DeleteEachUntilFailure(sessions, store, env, ids) ==
    IF ids = {} THEN [ ok |-> TRUE, sessions |-> sessions, store |-> store ]
    ELSE LET session_id == CHOOSE x \in ids : TRUE
             d == delete_session(sessions, store, env, session_id)
         IN  IF session_id \in env.failing
             THEN [ ok |-> FALSE, sessions |-> d.sessions, store |-> d.store ]
             ELSE DeleteEachUntilFailure(d.sessions, d.store, env, ids \ {session_id})

\* delete_session for each id of a list, one after the other
RECURSIVE DeleteEach(_, _, _, _)
DeleteEach(sessions, store, env, ids) ==
    IF ids = {} THEN [ ok |-> TRUE, sessions |-> sessions, store |-> store ]
    ELSE LET session_id == CHOOSE x \in ids : TRUE
             d == delete_session(sessions, store, env, session_id)
         IN  DeleteEach(d.sessions, d.store, env, ids \ {session_id})

\* returns the two tables after the sweep and expired_count
cleanup_expired_sessions(sessions, store, env, max_age_days) ==
    LET cutoff == env.now - max_age_days
        expired_ids == { sid \in DOMAIN sessions :
                             sessions[sid].last_accessed < cutoff }
        d == DeleteEach(sessions, store, env, expired_ids)
    IN  [ ok |-> TRUE, sessions |-> d.sessions, store |-> d.store,
          expired_count |-> Cardinality(expired_ids) ]


\* ------------------------------------------------- the three specialist ports

\* What a specialist's analyze call yields when it returns: macro and technical
\* return a dict, sentiment a SentimentAnalysis object (its attributes).
SpecialistReturn ==
    [ macro |->
        [ kind |-> "dict",
          value |-> [ agent_name |-> DefaultAgentName["macro"],
                      summary |-> <<"m", "a", "r", "k", "e", "t", "s", " ",
                                    "r", "a", "l", "l", "y">>,
                      confidence |-> 90,
                      key_factors |-> <<>> ] ],
      technical |->
        [ kind |-> "dict",
          value |-> [ agent_name |-> DefaultAgentName["technical"],
                      summary |-> <<"p", "r", "i", "c", "e", "s", " ",
                                    "l", "o", "w", "e", "r">>,
                      confidence |-> 60,
                      key_factors |-> <<>> ] ],
      sentiment |->
        [ kind |-> "object",
          value |-> [ summary |-> <<"r", "a", "t", "e", "s", " ", "s", "t", "e",
                                    "a", "d", "y", ".", " ", "m", "o", "r", "e">>,
                      sentiment_label |-> <<"n", "e", "u", "t", "r", "a", "l">>,
                      confidence |-> 75,
                      key_factors |-> <<>> ] ] ]

ExceptionText == <<"b", "o", "o", "m">>

\* what asyncio.gather(..., return_exceptions=True) hands back for one task
GatherResult(a, status) ==
    CASE status = "returned" -> SpecialistReturn[a]
      [] status = "raised" -> [ kind |-> "exception",
                                value |-> [ message |-> ExceptionText ] ]
      [] OTHER -> [ kind |-> "dict", value |-> EmptyDict ]

Settled == {"returned", "raised"}

\* a gather that resumes as soon as one task has settled
GatherReadyFirst(t) == \E a \in Agents : t[a] \in Settled

\* await asyncio.gather(macro_task, technical_task, sentiment_task,
\* return_exceptions=True) resumes when every task has settled ...
GatherReady(t) == \A a \in Agents : t[a] \in Settled

\* a gather without return_exceptions: the first exception is raised
GatherPropagatesFirst(t) == \E a \in Agents : t[a] = "raised"

\* ... and hands exceptions back as results instead of raising the first one
GatherPropagates(t) == FALSE

ErrorSummary ==
    [ macro |-> <<"E", "r", "r", "o", "r", " ", "i", "n", " ", "m", "a", "c", "r",
                  "o", " ", "a", "n", "a", "l", "y", "s", "i", "s">>,
      technical |-> <<"E", "r", "r", "o", "r", " ", "i", "n", " ", "t", "e", "c",
                      "h", "n", "i", "c", "a", "l", " ", "a", "n", "a", "l", "y",
                      "s", "i", "s">>,
      sentiment |-> <<"E", "r", "r", "o", "r", " ", "i", "n", " ", "s", "e", "n",
                      "t", "i", "m", "e", "n", "t", " ", "a", "n", "a", "l", "y",
                      "s", "i", "s">> ]

\* "# Handle any errors": an exception is replaced by an error dict
HandleError(a, result) ==
    IF result.kind = "exception"
    THEN [ kind |-> "dict",
           value |-> [ error |-> result.value.message, summary |-> ErrorSummary[a] ] ]
    ELSE result

\* a dict is returned as it is, an object through its to_dict()
_ensure_dict(obj) == obj.value

\* a turn stored without the update of previous_outlook/confidence/action
StoreTurnMessagesOnly(sessions, store, envs, session_id, conversation_id, query, asset_symbol, synthesis) ==
    LET m1 == add_message(sessions, store, envs[1], session_id, conversation_id, "user",
                          query, [asset_symbol |-> asset_symbol])
        m2 == add_message(m1.sessions, m1.store, envs[2], session_id, conversation_id,
                          "assistant", synthesis.final_response,
                          [ outlook |-> synthesis.outlook,
                            confidence |-> synthesis.confidence,
                            action |-> synthesis.trading_action ])
    IN  IF ~m1.ok THEN m1 ELSE m2

\* the try block that stores the turn in conversation memory: the first call
\* that raises ends it (the except clause logs and goes on); envs are the
\* environments of the three calls, each of which writes the store on its own
StoreTurn(sessions, store, envs, session_id, conversation_id, query, asset_symbol, synthesis) ==
    LET m1 == add_message(sessions, store, envs[1], session_id, conversation_id, "user",
                          query, [asset_symbol |-> asset_symbol])
        m2 == add_message(m1.sessions, m1.store, envs[2], session_id, conversation_id,
                          "assistant", synthesis.final_response,
                          [ outlook |-> synthesis.outlook,
                            confidence |-> synthesis.confidence,
                            action |-> synthesis.trading_action ])
        m3 == update_conversation_context(m2.sessions, m2.store, envs[3], session_id,
                                          conversation_id, synthesis.outlook,
                                          synthesis.confidence,
                                          synthesis.trading_action)
    IN  IF ~m1.ok THEN m1 ELSE IF ~m2.ok THEN m2 ELSE m3

\* an except clause that raises the failure again
StoreFailureRaised(stored) == ~stored.ok

\* "except Exception as e: logger.warning(...)": a failure to store the turn
\* is logged and analyze goes on to return the Analysis
StoreFailurePropagates(stored) == FALSE

\* ------------------------------------------------------------ api_routes.py

Market == <<"M", "A", "R", "K", "E", "T">>

AssetOf(request) == IF request.asset = None THEN Market ELSE request.asset[1]

\* analyze_market: the context handed to AnalysisService.analyze
RequestContext(request) ==
    IF request.session_id # None /\ request.conversation_id # None
    THEN [ asset_symbol |-> AssetOf(request),
           session_id |-> request.session_id[1],
           conversation_id |-> request.conversation_id[1] ]
    ELSE [ asset_symbol |-> AssetOf(request) ]

RequestKey(request) ==
    _generate_cache_key(request.query, AssetOf(request), Some(request.timeframe),
                        Some(RequestContext(request)))


\* ---------------------------------------------------------------- the state

NumReq == 2

Reqs == 1..NumReq

SessionIds == { <<"s", "1">> }

ConversationIds == { <<"c", "1">> }

UserIds == { <<"u">> }

\* the bodies of POST /analyze
RequestChoices ==
    { [ query |-> <<"q">>, asset |-> Some(<<"b", "t", "c">>),
        timeframe |-> <<"m", "e", "d", "i", "u", "m">>,
        session_id |-> sc[1], conversation_id |-> sc[2] ] :
      sc \in { <<None, None>>, <<Some(<<"s", "1">>), Some(<<"c", "1">>)>> } }

VARIABLES
    pc,          \* where each request's handler is
    req,         \* the request body, once submitted
    task,        \* the three specialist tasks of each request
    sent,        \* the query sent to the specialists (enriched_query)
    made,        \* what SynthesisAgent.analyze returned
    ret,         \* what AnalysisService.analyze returned
    hit,         \* the request was served from the result cache
    turn,        \* "stored" / "failed": the outcome of storing the turn
    cache,       \* the result cache: key -> Analysis dict
    _sessions,   \* ConversationManager's in-memory table
    redis,       \* the store behind it: key -> serialized session
    ttl_elapsed, \* some result cache entry has outlived its TTL
    syn_in,      \* inputs of _synthesize_results (SpecSynth)
    syn_out,     \* its result
    syn_dir,     \* the direction it read from each specialist
    key_in,      \* inputs of _generate_cache_key (SpecKey)
    key_out,     \* the keys
    col_in,      \* the three specialists' lists for one field (SpecCollect)
    col_out,     \* the field and its merged list
    ent_in,      \* the three specialist results (SpecEntity)
    ent_out,     \* the Analysis built from them
    ent_syn,     \* the synthesis it was built with
    now,         \* the clock, in days
    cm_ret,      \* the last ConversationManager call and what it returned
    last_use     \* per session id, the day of the last call that named it

orchVars == << pc, req, task, sent, made, ret, hit, turn, cache, _sessions, redis,
              ttl_elapsed >>

synthVars == << syn_in, syn_out, syn_dir >>

keyVars == << key_in, key_out >>

colVars == << col_in, col_out >>

entVars == << ent_in, ent_out, ent_syn >>

pureVars == << synthVars, keyVars, colVars, entVars >>

cmVars == << now, cm_ret, last_use >>

vars == << orchVars, made, pureVars, cmVars >>

NoTasks == [a \in Agents |-> "none"]

OrchInit ==
    /\ pc = [r \in Reqs |-> "idle"]
    /\ req = [r \in Reqs |-> None]
    /\ task = [r \in Reqs |-> NoTasks]
    /\ sent = [r \in Reqs |-> None]
    /\ made = [r \in Reqs |-> None]
    /\ ret = [r \in Reqs |-> None]
    /\ hit = [r \in Reqs |-> FALSE]
    /\ turn = [r \in Reqs |-> "none"]
    /\ cache = EmptyDict
    /\ _sessions = EmptyDict
    /\ redis = EmptyDict
    /\ ttl_elapsed = FALSE

SynthIdle ==
    /\ syn_in = [a \in Agents |-> EmptyDict]
    /\ syn_out = None
    /\ syn_dir = None

KeyIdle ==
    /\ key_in = <<>>
    /\ key_out = None

ColIdle ==
    /\ col_in = [a \in Agents |-> None]
    /\ col_out = None

EntIdle ==
    /\ ent_in = [a \in Agents |-> EmptyDict]
    /\ ent_out = None
    /\ ent_syn = None

CMIdle ==
    /\ now = 0
    /\ cm_ret = None
    /\ last_use = EmptyDict

Init == OrchInit /\ SynthIdle /\ KeyIdle /\ ColIdle /\ EntIdle /\ CMIdle

\* ------------------------------------------------------------- the handlers

\* analyze_market -> AnalysisService.analyze: the cache lookup (get_ok: the
\* cache answers; if it raises, analyze raises); on a miss
\* SynthesisAgent.analyze up to its first await (rag_service.query_collection)
Submit(r) ==
    /\ pc[r] = "idle"
    /\ \A p \in Reqs : p < r => pc[p] # "idle"   \* numbered in order of arrival
    /\ \E q \in RequestChoices, get_ok \in BOOLEAN :
         LET context == RequestContext(q)
             cache_key == RequestKey(q)
             cached == CacheGet(cache, cache_key)
             env == Env(now, {})
             has_conversation == /\ "session_id" \in DOMAIN context
                                 /\ "conversation_id" \in DOMAIN context
             conversation_context ==
                 IF has_conversation
                 THEN get_context_injection(_sessions, redis, env, context["session_id"],
                                            context["conversation_id"])
                 ELSE <<>>
             enriched_query ==
                 IF conversation_context # <<>>
                 THEN q.query \o << "\n\n[Previous context:\n" >>
                      \o conversation_context \o << "]" >>
                 ELSE q.query
         IN  /\ req' = [req EXCEPT ![r] = Some(q)]
             /\ IF ~get_ok
                THEN /\ pc' = [pc EXCEPT ![r] = "error"]
                     /\ UNCHANGED << sent, _sessions, ret, hit >>
                ELSE IF CacheHit(cached)
                THEN /\ ret' = [ret EXCEPT ![r] = cached]
                     /\ hit' = [hit EXCEPT ![r] = TRUE]
                     /\ pc' = [pc EXCEPT ![r] = "background"]
                     /\ UNCHANGED << sent, _sessions >>
                ELSE /\ sent' = [sent EXCEPT ![r] = Some(enriched_query)]
                     /\ _sessions' =
                            IF has_conversation
                            THEN SessionsAfterGet(_sessions, redis, env, context["session_id"])
                            ELSE _sessions
                     /\ pc' = [pc EXCEPT ![r] = "rag"]
                     /\ UNCHANGED << ret, hit >>
    /\ UNCHANGED << task, turn, cache, redis, ttl_elapsed, made, pureVars, cmVars >>

\* the documents are back: the three analyze coroutines are handed to gather
RagDone(r) ==
    /\ pc[r] = "rag"
    /\ pc' = [pc EXCEPT ![r] = "gather"]
    /\ task' = [task EXCEPT ![r] = [a \in Agents |-> "running"]]
    /\ UNCHANGED << req, sent, ret, hit, turn, cache, _sessions, redis, ttl_elapsed,
                    made, pureVars, cmVars >>

SpecialistReturns(r, a) ==
    /\ task[r][a] = "running"
    /\ task' = [task EXCEPT ![r][a] = "returned"]
    /\ UNCHANGED << pc, req, sent, ret, hit, turn, cache, _sessions, redis, ttl_elapsed,
                    made, pureVars, cmVars >>

SpecialistRaises(r, a) ==
    /\ task[r][a] = "running"
    /\ task' = [task EXCEPT ![r][a] = "raised"]
    /\ UNCHANGED << pc, req, sent, ret, hit, turn, cache, _sessions, redis, ttl_elapsed,
                    made, pureVars, cmVars >>

\* the store during the three calls that store a turn: it raises from the
\* k-th call on (k = 4: it never does)
StoreOutages ==
    { [i \in 1..3 |-> IF i >= k THEN SessionIds ELSE {}] : k \in 1..4 }

\* gather resumes SynthesisAgent.analyze, which runs to its return without
\* another await (failing: the sessions for which the store raises during each
\* of the three calls that store the turn; the turn is "unsaved" when the last
\* write was lost);
\* AnalysisService.analyze then writes the cache entry (set_ok: the cache
\* takes it; if it raises, analyze raises) and awaits _store_analysis
Join(r) ==
    /\ pc[r] = "gather"
    /\ GatherReady(task[r])
    /\ IF GatherPropagates(task[r])
       THEN /\ pc' = [pc EXCEPT ![r] = "raised"]
            /\ UNCHANGED << made, ret, turn, cache, _sessions, redis >>
       ELSE \E set_ok \in BOOLEAN, failing \in StoreOutages :
            LET q == req[r][1]
                context == RequestContext(q)
                asset_symbol == context["asset_symbol"]
                result == [a \in Agents |->
                              _ensure_dict(HandleError(a, GatherResult(a, task[r][a])))]
                synthesis == _synthesize_results(result["macro"], result["technical"],
                                                 result["sentiment"])
                analysis == _create_analysis_entity(q.query, asset_symbol, synthesis,
                                result["macro"], result["technical"], result["sentiment"])
                has_conversation == /\ "session_id" \in DOMAIN context
                                    /\ "conversation_id" \in DOMAIN context
                stored == StoreTurn(_sessions, redis,
                                    [i \in 1..3 |-> Env(now, failing[i])],
                                    context["session_id"], context["conversation_id"],
                                    q.query, asset_symbol, synthesis)
            IN  /\ IF has_conversation
                   THEN /\ _sessions' = stored.sessions
                        /\ redis' = stored.store
                        /\ turn' = [turn EXCEPT ![r] =
                                       IF ~stored.ok THEN "failed"
                                       ELSE IF context["session_id"] \in failing[3]
                                       THEN "unsaved" ELSE "stored"]
                   ELSE UNCHANGED << _sessions, redis, turn >>
                /\ IF has_conversation /\ StoreFailurePropagates(stored)
                   THEN /\ pc' = [pc EXCEPT ![r] = "raised"]
                        /\ UNCHANGED << made, ret, cache >>
                   ELSE /\ made' = [made EXCEPT ![r] = Some(analysis)]
                        /\ IF ~set_ok
                           THEN /\ pc' = [pc EXCEPT ![r] = "error"]
                                /\ UNCHANGED << ret, cache >>
                           ELSE /\ ret' = [ret EXCEPT ![r] = Some(analysis)]
                                /\ cache' = CacheResult(cache, RequestKey(q), analysis)
                                /\ pc' = [pc EXCEPT ![r] = "store"]
    /\ UNCHANGED << req, task, sent, hit, ttl_elapsed, pureVars, cmVars >>

\* _store_analysis is over: analyze returns, analyze_market queues the
\* background task and answers
StoreDone(r) ==
    /\ pc[r] = "store"
    /\ pc' = [pc EXCEPT ![r] = "background"]
    /\ UNCHANGED << req, task, sent, ret, hit, turn, cache, _sessions, redis,
                    ttl_elapsed, made, pureVars, cmVars >>

\* the background task: AnalysisService.cache_analysis(result)
Background(r) ==
    /\ pc[r] = "background"
    /\ cache' = cache_analysis(cache, ret[r][1])
    /\ pc' = [pc EXCEPT ![r] = "done"]
    /\ UNCHANGED << req, task, sent, ret, hit, turn, _sessions, redis, ttl_elapsed,
                    made, pureVars, cmVars >>

\* an entry of the result cache outlives its TTL
CacheExpire ==
    /\ \E k \in DOMAIN cache :
         cache' = [x \in DOMAIN cache \ {k} |-> cache[x]]
    /\ ttl_elapsed' = TRUE
    /\ UNCHANGED << pc, req, task, sent, ret, hit, turn, _sessions, redis,
                    made, pureVars, cmVars >>

CreateSession ==
    /\ \E sid \in SessionIds, u \in UserIds :
         /\ sid \notin DOMAIN _sessions
         /\ SessionKey(sid) \notin DOMAIN redis
         /\ LET c == create_session(_sessions, redis, Env(now, {}), sid, u)
            IN  /\ _sessions' = c.sessions
                /\ redis' = c.store
    /\ UNCHANGED << pc, req, task, sent, ret, hit, turn, cache, ttl_elapsed,
                    made, pureVars, cmVars >>

CreateConversation ==
    /\ \E sid \in SessionIds, cid \in ConversationIds :
         LET c == create_conversation(_sessions, redis, Env(now, {}), sid,
                                      <<"b", "t", "c">>, cid)
         IN  /\ c.ok
             /\ cid \notin DOMAIN _sessions[sid].conversations
             /\ _sessions' = c.sessions
             /\ redis' = c.store
    /\ UNCHANGED << pc, req, task, sent, ret, hit, turn, cache, ttl_elapsed,
                    made, pureVars, cmVars >>

Next ==
    \/ \E r \in Reqs : Submit(r)
    \/ \E r \in Reqs : RagDone(r)
    \/ \E r \in Reqs, a \in Agents : SpecialistReturns(r, a)
    \/ \E r \in Reqs, a \in Agents : SpecialistRaises(r, a)
    \/ \E r \in Reqs : Join(r)
    \/ \E r \in Reqs : StoreDone(r)
    \/ \E r \in Reqs : Background(r)
    \/ CacheExpire
    \/ CreateSession
    \/ CreateConversation

Spec == Init /\ [][Next]_vars


\* ------------------------------------------- _synthesize_results on its own

\* what a specialist may report: its directional field (or none) with a
\* summary, and a confidence (or none)
SampleSignals ==
    { [ field |-> Some(<<"b", "u", "l", "l", "i", "s", "h">>),
        summary |-> <<"p", "r", "i", "c", "e", "s", " ", "l", "o", "w", "e", "r">> ],
      [ field |-> Some(<<"B", "e", "a", "r", "i", "s", "h">>),
        summary |-> <<"m", "a", "r", "k", "e", "t", "s", " ", "r", "a", "l", "l", "y">> ],
      [ field |-> Some(<<"n", "e", "u", "t", "r", "a", "l">>),
        summary |-> <<"m", "a", "r", "k", "e", "t", "s", " ", "r", "a", "l", "l", "y">> ],
      [ field |-> None,
        summary |-> <<"m", "a", "r", "k", "e", "t", "s", " ", "r", "a", "l", "l", "y">> ],
      [ field |-> None,
        summary |-> <<"u", "p", "b", "e", "a", "t", " ", "s", "e", "l", "l">> ],
      [ field |-> Some(<<>>),
        summary |-> <<"m", "a", "r", "k", "e", "t", "s", " ", "r", "a", "l", "l", "y">> ],
      [ field |-> None, summary |-> <<>> ] }

SampleConfidences == { None, Some(0), Some(59), Some(60), Some(74), Some(75) }

SampleResult(a, signal, confidence) ==
    [ k \in {"summary"}
            \cup (IF signal.field # None THEN {DirectionKey[a]} ELSE {})
            \cup (IF confidence # None THEN {"confidence"} ELSE {}) |->
        IF k = "summary" THEN signal.summary
        ELSE IF k = "confidence" THEN confidence[1]
        ELSE signal.field[1] ]

SampleResults(a) ==
    { SampleResult(a, g, c) : g \in SampleSignals, c \in SampleConfidences }

SynthInit ==
    /\ OrchInit
    /\ KeyIdle
    /\ ColIdle
    /\ EntIdle
    /\ CMIdle
    /\ syn_in \in { [macro |-> m, technical |-> t, sentiment |-> n] :
                        m \in SampleResults("macro"),
                        t \in SampleResults("technical"),
                        n \in SampleResults("sentiment") }
    /\ syn_out = None
    /\ syn_dir = None

Synthesize ==
    /\ syn_out = None
    /\ syn_out' = Some(_synthesize_results(syn_in["macro"], syn_in["technical"],
                                           syn_in["sentiment"]))
    /\ syn_dir' = Some([a \in Agents |-> DirectionOf(a, syn_in[a])])
    /\ UNCHANGED << syn_in, orchVars, keyVars, colVars, entVars, cmVars >>

SynthNext == Synthesize

SpecSynth == SynthInit /\ [][SynthNext]_vars

\* ------------------------------------- the ConversationManager on its own

\* Callers of the manager's static methods, one call at a time: every method
\* is synchronous, so under the event loop each call runs from start to end.

CMSessionIds == { <<"s", "1">> }

SweepSessionIds == { <<"s", "1">>, <<"s", "2">> }

MaxNow == 8

\* the clock moves DayStep days at a time
DayStep == 4

MaxMessages == 3

Roles == { "user", "assistant" }

SampleLimits == { DefaultLimit, 2, 0 }

SampleMaxAges == { 1, DayStep, SESSION_EXPIRY }

orchRest == << pc, req, task, sent, made, ret, hit, turn, cache, ttl_elapsed >>

\* the day of the last call that named the session, after a call on day
Used(session_id, day) ==
    [k \in DOMAIN last_use \cup {session_id} |->
        IF k = session_id THEN day ELSE last_use[k]]

\* how long the session has not been named by a call (-1: never named)
IdleOf(session_id) ==
    IF session_id \in DOMAIN last_use THEN now - last_use[session_id] ELSE -1

\* the record of a call: what was called, the store failures during it,
\* whether the session had been idle for more than SESSION_EXPIRY, whether it
\* was in the table before, and what came back
Returned(op, session_id, conversation_id, failing, ok, value) ==
    Some([ op |-> op, session_id |-> session_id, conversation_id |-> conversation_id,
           failing |-> failing, stale |-> IdleOf(session_id) > SESSION_EXPIRY,
           in_memory |-> session_id \in DOMAIN _sessions,
           ok |-> ok, value |-> value ])

CallCreateSession(ids) ==
    /\ \E sid \in ids, u \in UserIds, failing \in SUBSET ids :
         /\ sid \notin DOMAIN _sessions          \* the id is a fresh uuid4
         /\ SessionKey(sid) \notin DOMAIN redis
         /\ LET c == create_session(_sessions, redis, Env(now, failing), sid, u)
            IN  /\ _sessions' = c.sessions
                /\ redis' = c.store
                /\ cm_ret' = Returned("create_session", sid, <<>>, failing, c.ok, <<>>)
                /\ last_use' = Used(sid, now)
    /\ UNCHANGED << now, orchRest, pureVars >>

CallGetSession(ids) ==
    /\ \E sid \in ids, failing \in SUBSET ids :
         LET env == Env(now, failing)
             session == get_session(_sessions, redis, env, sid)
         IN  /\ _sessions' = SessionsAfterGet(_sessions, redis, env, sid)
             /\ cm_ret' = Returned("get_session", sid, <<>>, failing,
                                   session # None, <<>>)
             /\ last_use' = IF session # None THEN Used(sid, now) ELSE last_use
    /\ UNCHANGED << now, redis, orchRest, pureVars >>

CallCreateConversation(ids) ==
    /\ \E sid \in ids, cid \in ConversationIds, failing \in SUBSET ids :
         LET c == create_conversation(_sessions, redis, Env(now, failing), sid,
                                      <<"b", "t", "c">>, cid)
         IN  /\ _sessions' = c.sessions
             /\ redis' = c.store
             /\ cm_ret' = Returned("create_conversation", sid, cid, failing, c.ok, <<>>)
             /\ last_use' = IF c.ok THEN Used(sid, now) ELSE last_use
    /\ UNCHANGED << now, orchRest, pureVars >>

CallAddMessage(ids) ==
    /\ \E sid \in ids, cid \in ConversationIds, role \in Roles,
          failing \in SUBSET ids :
         LET c == add_message(_sessions, redis, Env(now, failing), sid, cid, role,
                              <<"h", "i">>, EmptyDict)
         IN  /\ c.ok => Len(c.sessions[sid].conversations[cid].messages) <= MaxMessages
             /\ _sessions' = c.sessions
             /\ redis' = c.store
             /\ cm_ret' = Returned("add_message", sid, cid, failing, c.ok, <<>>)
             /\ last_use' = IF c.ok THEN Used(sid, now) ELSE last_use
    /\ UNCHANGED << now, orchRest, pureVars >>

CallUpdateContext(ids) ==
    /\ \E sid \in ids, cid \in ConversationIds, failing \in SUBSET ids :
         LET c == update_conversation_context(_sessions, redis, Env(now, failing),
                                              sid, cid, "bullish", 75, "buy")
         IN  /\ _sessions' = c.sessions
             /\ redis' = c.store
             /\ cm_ret' = Returned("update_conversation_context", sid, cid, failing,
                                   c.ok, <<>>)
             /\ last_use' = IF c.ok THEN Used(sid, now) ELSE last_use
    /\ UNCHANGED << now, orchRest, pureVars >>

CallGetHistory(ids) ==
    /\ \E sid \in ids, cid \in ConversationIds, limit \in SampleLimits,
          failing \in SUBSET ids :
         LET env == Env(now, failing)
             found == get_conversation(_sessions, redis, env, sid, cid) # None
         IN  /\ _sessions' = SessionsAfterGet(_sessions, redis, env, sid)
             /\ cm_ret' = Returned("get_conversation_history", sid, cid, failing, found,
                                   << limit,
                                      get_conversation_history(_sessions, redis, env,
                                                               sid, cid, limit) >>)
             /\ last_use' = IF found THEN Used(sid, now) ELSE last_use
    /\ UNCHANGED << now, redis, orchRest, pureVars >>

CallDeleteSession(ids) ==
    /\ \E sid \in ids, failing \in SUBSET ids :
         LET c == delete_session(_sessions, redis, Env(now, failing), sid)
         IN  /\ _sessions' = c.sessions
             /\ redis' = c.store
             /\ cm_ret' = Returned("delete_session", sid, <<>>, failing, c.ok, <<>>)
             /\ last_use' = [k \in DOMAIN last_use \ {sid} |-> last_use[k]]
    /\ UNCHANGED << now, orchRest, pureVars >>

CallCleanup(ids) ==
    /\ \E max_age_days \in SampleMaxAges, failing \in SUBSET ids :
         LET c == cleanup_expired_sessions(_sessions, redis, Env(now, failing),
                                           max_age_days)
         IN  /\ _sessions' = c.sessions
             /\ redis' = c.store
             /\ cm_ret' = Returned("cleanup_expired_sessions", <<>>, <<>>, failing, c.ok,
                                   << max_age_days, c.expired_count, DOMAIN redis >>)
             /\ last_use' = [k \in DOMAIN last_use \cap DOMAIN c.sessions |-> last_use[k]]
    /\ UNCHANGED << now, orchRest, pureVars >>

\* time passes; the store drops the entries whose time to live has run out
Tick ==
    /\ now + DayStep <= MaxNow
    /\ now' = now + DayStep
    /\ redis' = [k \in { x \in DOMAIN redis : redis[x].expires_at > now + DayStep } |->
                    redis[k]]
    /\ UNCHANGED << _sessions, cm_ret, last_use, orchRest, pureVars >>

CMNext ==
    \/ CallCreateSession(CMSessionIds)
    \/ CallGetSession(CMSessionIds)
    \/ CallCreateConversation(CMSessionIds)
    \/ CallAddMessage(CMSessionIds)
    \/ CallUpdateContext(CMSessionIds)
    \/ CallGetHistory(CMSessionIds)
    \/ CallDeleteSession(CMSessionIds)
    \/ CallCleanup(CMSessionIds)
    \/ Tick

SpecCM == Init /\ [][CMNext]_vars

\* sessions only: creation, lookup, deletion and the sweep, over two ids
SweepNext ==
    \/ CallCreateSession(SweepSessionIds)
    \/ CallGetSession(SweepSessionIds)
    \/ CallDeleteSession(SweepSessionIds)
    \/ CallCleanup(SweepSessionIds)
    \/ Tick

SpecSweep == Init /\ [][SweepNext]_vars

\* ------------------------------------------------- _collect_list on its own

CollectFields ==
    { "bullish_factors", "bearish_factors", "critical_factors", "key_risks",
      "risk_mitigations" }

SampleFactors == { <<"a">>, <<"b">>, <<>>, <<" ", "\t">> }

MaxFactors == 2

\* a specialist's list for the field: none (the key is absent) or a list
SampleFactorLists ==
    { None } \cup { Some(l) : l \in UNION { [1..n -> SampleFactors] : n \in 0..MaxFactors } }

\* the specialist's result dict: the list under each of the five fields, or
\* none of the fields
FactorResult(list) ==
    IF list = None THEN EmptyDict ELSE [field \in CollectFields |-> list[1]]

CollectInit ==
    /\ OrchInit
    /\ SynthIdle
    /\ KeyIdle
    /\ EntIdle
    /\ CMIdle
    /\ col_in \in [Agents -> SampleFactorLists]
    /\ col_out = None

Collect ==
    /\ col_out = None
    /\ LET synthesis == _synthesize_results(FactorResult(col_in["macro"]),
                                            FactorResult(col_in["technical"]),
                                            FactorResult(col_in["sentiment"]))
       IN  col_out' = Some([field \in CollectFields |-> synthesis[field]])
    /\ UNCHANGED << col_in, orchVars, synthVars, keyVars, entVars, cmVars >>

CollectNext == Collect

SpecCollect == CollectInit /\ [][CollectNext]_vars

\* --------------------------------------- _create_analysis_entity on its own

\* confidences around the band boundaries of the risk score, or none reported
EntityConfidences ==
    { None, Some(0), Some(19), Some(20), Some(21), Some(60), Some(79), Some(80),
      Some(81), Some(100) }

EntityResult(confidence) ==
    IF confidence = None THEN [ summary |-> <<"x">> ]
    ELSE [ summary |-> <<"x">>, confidence |-> confidence[1] ]

EntityInit ==
    /\ OrchInit
    /\ SynthIdle
    /\ KeyIdle
    /\ ColIdle
    /\ CMIdle
    /\ ent_in \in [Agents -> { EntityResult(c) : c \in EntityConfidences }]
    /\ ent_out = None
    /\ ent_syn = None

\* SynthesisAgent.analyze, from the synthesis to the Analysis it returns
BuildEntity ==
    /\ ent_out = None
    /\ LET synthesis == _synthesize_results(ent_in["macro"], ent_in["technical"],
                                            ent_in["sentiment"])
       IN  /\ ent_syn' = Some(synthesis)
           /\ ent_out' = Some(_create_analysis_entity(<<"q">>, Market, synthesis,
                               ent_in["macro"], ent_in["technical"], ent_in["sentiment"]))
    /\ UNCHANGED << ent_in, orchVars, synthVars, keyVars, colVars, cmVars >>

EntityNext == BuildEntity

SpecEntity == EntityInit /\ [][EntityNext]_vars

\* ------------------------------------------- _generate_cache_key on its own

SampleTexts == { <<"a">>, <<"a", ":", "a">> }

SampleTimeframes == { None, Some(<<"s", "h", "o", "r", "t">>), Some(<<"l", "o", "n", "g">>) }

SampleContext(session_id, conversation_id, asset_symbol) ==
    [ k \in (IF session_id # None THEN {"session_id"} ELSE {})
            \cup (IF conversation_id # None THEN {"conversation_id"} ELSE {})
            \cup (IF asset_symbol # None THEN {"asset_symbol"} ELSE {}) |->
        IF k = "session_id" THEN session_id[1]
        ELSE IF k = "conversation_id" THEN conversation_id[1]
        ELSE asset_symbol[1] ]

SampleContexts ==
    { None } \cup
    { Some(SampleContext(s, c, x)) :
        s \in { None, Some(<<"s", "1">>) },
        c \in { None, Some(<<"c", "1">>), Some(<<"c", "2">>) },
        x \in { None } \cup { Some(t) : t \in SampleTexts } }

\* the arguments of one call of _generate_cache_key
SampleCalls ==
    { [ query |-> q, asset_symbol |-> x, timeframe |-> t, context |-> c ] :
        q \in SampleTexts, x \in SampleTexts, t \in SampleTimeframes,
        c \in SampleContexts }

KeyInit ==
    /\ OrchInit
    /\ SynthIdle
    /\ ColIdle
    /\ EntIdle
    /\ CMIdle
    /\ key_in \in { << c1, c2 >> : c1 \in SampleCalls, c2 \in SampleCalls }
    /\ key_out = None

GenerateKeys ==
    /\ key_out = None
    /\ key_out' = Some([i \in {1, 2} |->
                           _generate_cache_key(key_in[i].query, key_in[i].asset_symbol,
                                               key_in[i].timeframe, key_in[i].context)])
    /\ UNCHANGED << key_in, orchVars, synthVars, colVars, entVars, cmVars >>

KeyNext == GenerateKeys

SpecKey == KeyInit /\ [][KeyNext]_vars


\* ================================================================== claims

\* the request went through SynthesisAgent.analyze and is past the gather
PastJoin(r) == pc[r] \in {"store", "background", "done"} /\ ~hit[r]

Invoked(r) == task[r] # NoTasks

\* C1: whatever subset of the three specialists raises, analyze raises
\* nothing and returns an Analysis.
C1_SpecialistFailuresAbsorbed ==
    \A r \in Reqs :
        /\ pc[r] # "raised"
        /\ PastJoin(r) => ret[r] # None

\* C1 witness: all three specialists raised and the request was answered
C1_AllThreeRaised ==
    \E r \in Reqs :
        /\ pc[r] = "done"
        /\ ~hit[r]
        /\ \A a \in Agents : task[r][a] = "raised"
        /\ ret[r] # None

AnalysisOf(analysis, a) ==
    CASE a = "macro" -> analysis.macro_analysis
      [] a = "technical" -> analysis.technical_analysis
      [] a = "sentiment" -> analysis.sentiment_analysis

ReportedConfidence(r, a) ==
    IF task[r][a] = "raised" THEN 0 ELSE SpecialistReturn[a].value.confidence

\* C2: a specialist that raised is reported with confidence 0.0, the overall
\* confidence is the mean of the three confidences including that zero, and
\* the summaries of the specialists that returned are kept, non-empty.
C2_DegradedConfidenceZero ==
    \A r \in Reqs :
        PastJoin(r) =>
            /\ \A a \in Agents :
                 IF task[r][a] = "raised"
                 THEN AnalysisOf(ret[r][1], a).confidence = 0
                 ELSE /\ AnalysisOf(ret[r][1], a).summary = SpecialistReturn[a].value.summary
                      /\ AnalysisOf(ret[r][1], a).summary # <<>>
            /\ ret[r][1].overall_confidence3 =
                   ReportedConfidence(r, "macro") + ReportedConfidence(r, "technical")
                   + ReportedConfidence(r, "sentiment")

\* C3: the synthesis runs only when all three specialist tasks have settled:
\* a request that is past the gather has no task still running, whichever
\* task returned or raised first, and a task runs only during the gather.
C3_JoinBarrier ==
    \A r \in Reqs :
        /\ pc[r] \in {"store", "background", "done", "raised"} =>
               \A a \in Agents : task[r][a] \in Settled \/ hit[r]
        /\ (\E a \in Agents : task[r][a] = "running") => pc[r] = "gather"

\* C3 witness: one specialist raised, the two others returned, and the
\* synthesis has run
C3_SynthesisAfterMixedSettle ==
    \E r \in Reqs :
        /\ pc[r] = "store"
        /\ task[r]["macro"] = "raised"
        /\ task[r]["technical"] = "returned"
        /\ task[r]["sentiment"] = "returned"
        /\ ret[r] # None

\* C4: a request that finds its key in the result cache is answered with the
\* cached Analysis and nothing else happens: no specialist task, no message,
\* no previous_* change, no write to the cache or to the conversation store.
C4_CacheHitDoesNothingElse ==
    [][ \A r \in Reqs :
          /\ ( /\ pc[r] = "idle"
               /\ pc'[r] \notin {"idle", "error"}
               /\ RequestKey(req'[r][1]) \in DOMAIN cache )
             => /\ ret'[r] = Some(cache[RequestKey(req'[r][1])].value)
                /\ hit'[r]
                /\ pc'[r] = "background"
                /\ task' = task
                /\ turn' = turn
                /\ cache' = cache
                /\ _sessions' = _sessions
                /\ redis' = redis
          /\ hit'[r] => (task'[r] = NoTasks /\ turn'[r] = "none")
      ]_vars

\* C4 witness: a request carrying a conversation was served from the cache
C4_HitWithConversation ==
    \E r \in Reqs :
        /\ hit[r]
        /\ ret[r] # None
        /\ req[r][1].conversation_id # None
        /\ <<"s", "1">> \in DOMAIN _sessions

SessionOf(call) ==
    IF call.context # None /\ "session_id" \in DOMAIN call.context[1]
    THEN Some(call.context[1]["session_id"]) ELSE None

ConversationOf(call) ==
    IF call.context # None /\ "conversation_id" \in DOMAIN call.context[1]
    THEN Some(call.context[1]["conversation_id"]) ELSE None

DifferingAssetOf(call) ==
    IF /\ call.context # None
       /\ "asset_symbol" \in DOMAIN call.context[1]
       /\ call.context[1]["asset_symbol"] # call.asset_symbol
    THEN Some(call.context[1]["asset_symbol"]) ELSE None

FieldsAgree(c1, c2) ==
    /\ c1.query = c2.query
    /\ c1.asset_symbol = c2.asset_symbol
    /\ c1.timeframe = c2.timeframe
    /\ SessionOf(c1) = SessionOf(c2)
    /\ ConversationOf(c1) = ConversationOf(c2)
    /\ DifferingAssetOf(c1) = DifferingAssetOf(c2)

\* C5: two requests get the same cache key exactly when they agree on query,
\* asset_symbol, timeframe, session_id, conversation_id and the differing
\* context asset_symbol.
C5_KeyInjective ==
    key_out # None =>
        ((key_out[1][1] = key_out[1][2]) <=> FieldsAgree(key_in[1], key_in[2]))

SameKey(r1, r2) ==
    /\ req[r1] # None
    /\ req[r2] # None
    /\ RequestKey(req[r1][1]) = RequestKey(req[r2][1])

\* C6 as stated: among requests with one fingerprint issued within the TTL,
\* concurrent ones included, the specialists are invoked for at most one and
\* at most one conversation turn is stored.
C6_AtMostOneInvocation ==
    ~ttl_elapsed =>
        \A r1 \in Reqs, r2 \in Reqs :
            (r1 # r2 /\ SameKey(r1, r2)) =>
                /\ ~(Invoked(r1) /\ Invoked(r2))
                /\ ~(turn[r1] = "stored" /\ turn[r2] = "stored")

\* C6 amended: a request issued after another request with the same
\* fingerprint has written its cache entry, before any entry has expired, is
\* served from the cache if the cache answers: no specialist is invoked for it
\* and it stores no conversation turn, then or later.
C6_DedupAfterCacheWrite ==
    [][ \A r \in Reqs :
          /\ ( /\ pc[r] = "idle"
               /\ pc'[r] # "idle"
               /\ ~ttl_elapsed
               /\ \E p \in Reqs \ {r} :
                    /\ PastJoin(p)
                    /\ RequestKey(req[p][1]) = RequestKey(req'[r][1]) )
             => /\ pc'[r] # "error" => hit'[r]
                /\ ~Invoked(r)'
                /\ turn'[r] = "none"
                /\ _sessions' = _sessions
                /\ redis' = redis
          /\ hit'[r] => (~Invoked(r)' /\ turn'[r] = "none")
      ]_vars

\* C6 witness: the second of two requests with one fingerprint was served from
\* the cache entry the first one wrote
C6_SecondServedFromCache ==
    \E r1 \in Reqs, r2 \in Reqs :
        /\ r1 # r2
        /\ SameKey(r1, r2)
        /\ PastJoin(r1)
        /\ turn[r1] = "stored"
        /\ hit[r2]
        /\ pc[r2] = "done"
        /\ ~ttl_elapsed

SynthDirections ==
    << DirectionOf("macro", syn_in["macro"]),
       DirectionOf("technical", syn_in["technical"]),
       DirectionOf("sentiment", syn_in["sentiment"]) >>

\* C7: when as many specialists are bullish as bearish (one of each and a
\* neutral, or none of either) the outlook is neutral and the action is hold.
C7_TieIsNeutralHold ==
    (syn_out # None
     /\ CountDir(SynthDirections, "bullish") = CountDir(SynthDirections, "bearish"))
        => (syn_out[1].outlook = "neutral" /\ syn_out[1].trading_action = "hold")

\* C7 witness: a bullish, a bearish and a neutral specialist were merged
C7_OneOfEach ==
    /\ syn_out # None
    /\ SynthDirections = << "bullish", "bearish", "neutral" >>

\* C8: the outlook is the direction held by at least two of the three
\* specialists, and neutral when no direction is held by two.
C8_OutlookIsMajority ==
    syn_out # None =>
        /\ \A d \in {"bullish", "bearish", "neutral"} :
             CountDir(SynthDirections, d) >= 2 => syn_out[1].outlook = d
        /\ (\A d \in {"bullish", "bearish", "neutral"} :
               CountDir(SynthDirections, d) < 2) => syn_out[1].outlook = "neutral"

\* C9: the outlook is bullish, bearish or neutral and the action is fixed by
\* it: buy exactly for bullish, sell exactly for bearish, hold exactly for
\* neutral, and nothing else.
C9_ActionFromOutlook ==
    syn_out # None =>
        /\ syn_out[1].outlook \in {"bullish", "bearish", "neutral"}
        /\ syn_out[1].trading_action \in {"buy", "sell", "hold"}
        /\ syn_out[1].trading_action = "buy" <=> syn_out[1].outlook = "bullish"
        /\ syn_out[1].trading_action = "sell" <=> syn_out[1].outlook = "bearish"
        /\ syn_out[1].trading_action = "hold" <=> syn_out[1].outlook = "neutral"

\* C9 witness: a bearish synthesis with action sell
C9_BearishSell ==
    /\ syn_out # None
    /\ syn_out[1].outlook = "bearish"
    /\ syn_out[1].trading_action = "sell"

AllReportConfidence == \A a \in Agents : "confidence" \in DOMAIN syn_in[a]

\* three times the mean of the confidences the specialists reported
ReportedSum ==
    syn_in["macro"]["confidence"] + syn_in["technical"]["confidence"]
    + syn_in["sentiment"]["confidence"]

\* C10: the position size depends on the mean m of the three reported
\* confidences only: large for m >= 0.75, medium for 0.60 <= m < 0.75, small
\* below 0.60.
C10_SizingFromMean ==
    (syn_out # None /\ AllReportConfidence) =>
        syn_out[1].position_sizing =
            IF ReportedSum >= 225 THEN "large"
            ELSE IF ReportedSum >= 180 THEN "medium"
            ELSE "small"

\* the concatenation of the three lists, macro first (an absent list is empty)
ColConcat ==
    (IF col_in["macro"] = None THEN <<>> ELSE col_in["macro"][1])
    \o (IF col_in["technical"] = None THEN <<>> ELSE col_in["technical"][1])
    \o (IF col_in["sentiment"] = None THEN <<>> ELSE col_in["sentiment"][1])

\* the position of the first occurrence of x in the sequence s
FirstIndex(s, x) == CHOOSE i \in 1..Len(s) : s[i] = x /\ \A j \in 1..(i - 1) : s[j] # x

\* C11: each merged list is the concatenation of the macro, technical and
\* sentiment lists with blank entries removed and every string kept at its
\* first occurrence only: no string twice, no blank string, every non-blank
\* input string present, in the order of the first occurrences.
C11_MergedListIsDedupOfConcat ==
    col_out # None =>
      \A field \in CollectFields :
        LET merged == col_out[1][field]
        IN  /\ \A i \in 1..Len(merged), j \in 1..Len(merged) :
                   i # j => merged[i] # merged[j]
            /\ \A i \in 1..Len(merged) :
                   /\ ~(\A k \in 1..Len(merged[i]) : merged[i][k] \in Whitespace)
                   /\ \E k \in 1..Len(ColConcat) : ColConcat[k] = merged[i]
            /\ \A k \in 1..Len(ColConcat) :
                   (\E c \in 1..Len(ColConcat[k]) : ColConcat[k][c] \notin Whitespace)
                       => \E i \in 1..Len(merged) : merged[i] = ColConcat[k]
            /\ \A i \in 1..Len(merged), j \in 1..Len(merged) :
                   i < j => FirstIndex(ColConcat, merged[i]) < FirstIndex(ColConcat, merged[j])

\* C11 witness: macro and technical both emit the same factor, after and
\* before another one and a blank, and the merged list holds it once, first
C11_SharedFactorOnce ==
    /\ col_out # None
    /\ col_in["macro"] = Some(<< <<"a">>, <<" ", "\t">> >>)
    /\ col_in["technical"] = Some(<< <<"b">>, <<"a">> >>)
    /\ col_out[1]["bullish_factors"] = << <<"a">>, <<"b">> >>

\* C12: in every Analysis the overall confidence is the mean of the three
\* specialist confidences it records, the risk score is 1 minus it, and the
\* risk level is very_low below 0.2, low from 0.2 and below 0.4, medium from
\* 0.4 and below 0.6, high from 0.6 and below 0.8, very_high from 0.8 (all
\* three kept times 3, in hundredths: 60, 120, 180, 240).
C12_RiskFromMeanConfidence ==
    ent_out # None =>
        LET a == ent_out[1]
        IN  /\ a.overall_confidence3 =
                   a.macro_analysis.confidence + a.technical_analysis.confidence
                   + a.sentiment_analysis.confidence
            /\ \A x \in Agents :
                   "confidence" \in DOMAIN ent_in[x] =>
                       AnalysisOf(a, x).confidence = ent_in[x]["confidence"]
            /\ a.risk_score3 = 300 - a.overall_confidence3
            /\ a.risk_level =
                   IF a.risk_score3 < 60 THEN "very_low"
                   ELSE IF a.risk_score3 < 120 THEN "low"
                   ELSE IF a.risk_score3 < 180 THEN "medium"
                   ELSE IF a.risk_score3 < 240 THEN "high"
                   ELSE "very_high"

\* C12 witness: three confidences of 0.6 give the risk score 0.4, on the
\* boundary, and the level medium
C12_BoundaryInUpperBand ==
    /\ ent_out # None
    /\ \A x \in Agents : ent_in[x] = EntityResult(Some(60))
    /\ ent_out[1].risk_score3 = 120
    /\ ent_out[1].risk_level = "medium"

\* a step that is a call of add_message or update_conversation_context
AppendOrUpdateCall ==
    CallAddMessage(CMSessionIds) \/ CallUpdateContext(CMSessionIds)

\* the session the manager can find for the id before the call, if any
KnownSession(session_id) ==
    IF session_id \in DOMAIN _sessions THEN Some(_sessions[session_id])
    ELSE IF SessionKey(session_id) \in DOMAIN redis
    THEN Some(redis[SessionKey(session_id)].value)
    ELSE None

NotFoundCase(session_id, conversation_id) ==
    \/ KnownSession(session_id) = None
    \/ conversation_id \notin DOMAIN KnownSession(session_id)[1].conversations

\* C13 as stated: add_message and update_conversation_context fail when the
\* session does not exist or does not have the conversation, and a failed call
\* changes neither the in-memory sessions nor the store.
C13_FailedCallChangesNothing ==
    [][ AppendOrUpdateCall =>
          /\ NotFoundCase(cm_ret'[1].session_id, cm_ret'[1].conversation_id)
                 => ~cm_ret'[1].ok
          /\ ~cm_ret'[1].ok => (_sessions' = _sessions /\ redis' = redis)
      ]_vars

\* C13 amended: they fail in those cases, and a failed call appends no
\* message, changes no previous_* field and does not write the store; the one
\* thing it may do is put into the in-memory table, unchanged, the session it
\* loaded from the store while looking it up.
C13_FailedCallWritesNoConversationState ==
    [][ AppendOrUpdateCall =>
          /\ NotFoundCase(cm_ret'[1].session_id, cm_ret'[1].conversation_id)
                 => ~cm_ret'[1].ok
          /\ ~cm_ret'[1].ok =>
                 /\ redis' = redis
                 /\ \A k \in DOMAIN _sessions :
                        k \in DOMAIN _sessions' /\ _sessions'[k] = _sessions[k]
                 /\ \A k \in DOMAIN _sessions' \ DOMAIN _sessions :
                        /\ k = cm_ret'[1].session_id
                        /\ SessionKey(k) \in DOMAIN redis
                        /\ _sessions'[k] = redis[SessionKey(k)].value
      ]_vars

\* C13 witness: add_message failed for a conversation the session does not
\* have, after loading the session from the store into the table
C13_FailedAfterLoad ==
    /\ cm_ret # None
    /\ cm_ret[1].op = "add_message"
    /\ ~cm_ret[1].ok
    /\ ~cm_ret[1].in_memory
    /\ cm_ret[1].session_id \in DOMAIN _sessions

\* the messages of the conversation as the manager finds them before a call
MessagesBefore(session_id, conversation_id) ==
    KnownSession(session_id)[1].conversations[conversation_id].messages

\* C14: messages are append-only and ordered: a successful add_message puts
\* its message after all the earlier ones and leaves them as they were, a
\* context update leaves the messages as they were, and
\* get_conversation_history returns them in that order (all of them for the
\* default limit).
C14_AppendOnlyOrdered ==
    [][ LET c == cm_ret'[1]
            sid == c.session_id
            cid == c.conversation_id
        IN  /\ (CallAddMessage(CMSessionIds) /\ c.ok) =>
                   LET before == MessagesBefore(sid, cid)
                       after == _sessions'[sid].conversations[cid].messages
                   IN  /\ Len(after) = Len(before) + 1
                       /\ SubSeq(after, 1, Len(before)) = before
                       /\ after[Len(after)].content = <<"h", "i">>
            /\ (CallUpdateContext(CMSessionIds) /\ c.ok) =>
                   _sessions'[sid].conversations[cid].messages = MessagesBefore(sid, cid)
            /\ (CallGetHistory(CMSessionIds) /\ c.ok) =>
                   /\ _sessions'[sid].conversations[cid].messages = c.value[2]
                          \/ c.value[1] # DefaultLimit
                   /\ \E k \in 0..Len(_sessions'[sid].conversations[cid].messages) :
                          c.value[2] =
                              SubSeq(_sessions'[sid].conversations[cid].messages, k + 1,
                                     Len(_sessions'[sid].conversations[cid].messages))
      ]_vars

\* C14 witness: after a user, an assistant and a user message, with a context
\* update in between, get_conversation_history returned them in that order
C14_UserAssistantUser ==
    /\ cm_ret # None
    /\ cm_ret[1].op = "get_conversation_history"
    /\ cm_ret[1].value[1] = DefaultLimit
    /\ Len(cm_ret[1].value[2]) = 3
    /\ cm_ret[1].value[2][1].role = "user"
    /\ cm_ret[1].value[2][2].role = "assistant"
    /\ cm_ret[1].value[2][3].role = "user"
    /\ _sessions[cm_ret[1].session_id].conversations[cm_ret[1].conversation_id]
           .previous_outlook # None

\* the request names a session and a conversation
HasConversation(r) == req[r] # None /\ req[r][1].session_id # None

\* the requests whose turn went into the given conversation
TurnsIn(session_id, conversation_id, turns) ==
    { r \in Reqs : /\ HasConversation(r)
                   /\ req[r][1].session_id[1] = session_id
                   /\ req[r][1].conversation_id[1] = conversation_id
                   /\ turns[r] \in {"stored", "unsaved"} }

\* C15: appends by concurrent requests to one conversation are atomic: each
\* request's user and assistant messages go, together and once, after all the
\* messages that were there; nothing else changes the messages; the
\* conversation holds two messages per stored turn; and after a turn whose
\* store write went through the store's copy is the manager's session.
C15_AppendsLinearizable ==
    [][ \A sid \in DOMAIN _sessions' :
        \A cid \in DOMAIN _sessions'[sid].conversations :
          LET after == _sessions'[sid].conversations[cid].messages
              before == IF sid \in DOMAIN _sessions /\ cid \in DOMAIN _sessions[sid].conversations
                        THEN _sessions[sid].conversations[cid].messages ELSE <<>>
              joined == TurnsIn(sid, cid, turn') \ TurnsIn(sid, cid, turn)
          IN  /\ Len(after) = 2 * Cardinality(TurnsIn(sid, cid, turn'))
              /\ joined = {} => after = before
              /\ \A r \in joined :
                   /\ joined = {r}
                   /\ after = before \o
                          << [ role |-> "user", content |-> req[r][1].query,
                               metadata |-> after[Len(after) - 1].metadata ],
                             [ role |-> "assistant", content |-> after[Len(after)].content,
                               metadata |-> after[Len(after)].metadata ] >>
                   /\ turn'[r] = "stored" =>
                          redis'[SessionKey(sid)].value = _sessions'[sid]
      ]_vars

\* C15 witness: two requests that were in flight together (neither found the
\* other's cache entry) both stored their turn in the same conversation, which
\* holds the four messages, also in the store
C15_TwoConcurrentTurns ==
    /\ ~ttl_elapsed
    /\ \A r \in {1, 2} : turn[r] = "stored" /\ pc[r] = "done" /\ ~hit[r]
    /\ Len(_sessions[<<"s", "1">>].conversations[<<"c", "1">>].messages) = 4
    /\ redis[SessionKey(<<"s", "1">>)].value = _sessions[<<"s", "1">>]

\* a step that is a call of one of the four mutating operations
MutatingCall ==
    \/ CallCreateSession(CMSessionIds)
    \/ CallCreateConversation(CMSessionIds)
    \/ CallAddMessage(CMSessionIds)
    \/ CallUpdateContext(CMSessionIds)

\* C16: after a mutating operation that completed while the store answered,
\* the store's entry under session:{session_id} is the whole in-memory session
\* and it expires SESSION_EXPIRY (7 days) from now.
C16_WriteThrough ==
    [][ ( /\ MutatingCall
          /\ cm_ret'[1].ok
          /\ cm_ret'[1].session_id \notin cm_ret'[1].failing )
        => LET key == SessionPrefix \o cm_ret'[1].session_id
           IN  /\ key \in DOMAIN redis'
               /\ redis'[key].value = _sessions'[cm_ret'[1].session_id]
               /\ redis'[key].expires_at = now + 7
      ]_vars

\* C16 witness: a context update made some days after the session was
\* created is in the store's copy, whose expiry was moved to 7 days from then
C16_UpdatePersistedLater ==
    /\ cm_ret # None
    /\ cm_ret[1].op = "update_conversation_context"
    /\ cm_ret[1].ok
    /\ cm_ret[1].failing = {}
    /\ now > 0
    /\ LET entry == redis[SessionKey(cm_ret[1].session_id)]
       IN  /\ entry.value.created_at = 0
           /\ entry.value.conversations[cm_ret[1].conversation_id].previous_outlook
                  = Some("bullish")
           /\ entry.value = _sessions[cm_ret[1].session_id]
           /\ entry.expires_at = now + 7

\* C17: a session that no call has named for more than 7 days is expired:
\* get_session does not return it, and add_message and
\* update_conversation_context on it fail as for a missing session.
C17_IdleSessionExpired ==
    ( /\ cm_ret # None
      /\ cm_ret[1].op \in {"get_session", "add_message", "update_conversation_context"}
      /\ cm_ret[1].stale )
        => ~cm_ret[1].ok

\* C18: cleanup_expired_sessions(max_age_days) removes from the manager's
\* table every session whose last_accessed is earlier than now - max_age_days
\* and no other, counts them, and deletes the store entry of each of them whose
\* store delete does not raise; a delete that raises leaves that one entry and
\* stops nothing.
C18_SweepRemovesEveryExpired ==
    [][ CallCleanup(SweepSessionIds) =>
          LET max_age_days == cm_ret'[1].value[1]
              expired == { sid \in DOMAIN _sessions :
                               now - _sessions[sid].last_accessed > max_age_days }
          IN  /\ DOMAIN _sessions' = DOMAIN _sessions \ expired
              /\ \A sid \in DOMAIN _sessions' : _sessions'[sid] = _sessions[sid]
              /\ cm_ret'[1].value[2] = Cardinality(expired)
              /\ \A sid \in expired :
                     sid \notin cm_ret'[1].failing => SessionKey(sid) \notin DOMAIN redis'
              /\ \A k \in DOMAIN redis' : k \in DOMAIN redis /\ redis'[k] = redis[k]
              /\ \A k \in DOMAIN redis \ DOMAIN redis' :
                     \E sid \in expired : k = SessionKey(sid)
      ]_vars

\* C18 witness: two expired sessions, both in the store; the store delete of
\* the first raised, and the second is gone from the table and from the store
C18_OtherStillRemoved ==
    /\ cm_ret # None
    /\ cm_ret[1].op = "cleanup_expired_sessions"
    /\ cm_ret[1].failing = { <<"s", "1">> }
    /\ cm_ret[1].value[2] = 2
    /\ cm_ret[1].value[3] = { SessionKey(<<"s", "1">>), SessionKey(<<"s", "2">>) }
    /\ DOMAIN _sessions = {}
    /\ DOMAIN redis = { SessionKey(<<"s", "1">>) }

\* C19: whenever storing the turn fails (the session or the conversation is
\* missing, or the store write raises), SynthesisAgent.analyze does not raise
\* and returns the Analysis, the same one as a request with the same body and
\* the same specialist outcomes whose turn was stored.
C19_StoreFailureNotPropagated ==
    \A r \in Reqs :
        turn[r] \in {"failed", "unsaved"} =>
            /\ pc[r] # "raised"
            /\ made[r] # None
            /\ \A p \in Reqs :
                   ( turn[p] = "stored" /\ req[p] = req[r] /\ task[p] = task[r] )
                       => made[p] = made[r]

\* C19 witness: one turn was lost for a missing session, one was lost for a
\* store write that raised or was stored, and both requests got the Analysis
C19_LostTurnSameAnalysis ==
    \E r \in Reqs, p \in Reqs :
        /\ turn[r] = "failed"
        /\ turn[p] \in {"stored", "unsaved"}
        /\ req[p] = req[r] /\ task[p] = task[r]
        /\ made[r] # None /\ made[p] = made[r]
        /\ ret[r] = made[r]

\* C20: no request ends with AnalysisService.analyze raising for the result
\* cache: when its get or its set fails, analyze still returns the Analysis.
C20_CacheFailureTolerated ==
    \A r \in Reqs : pc[r] # "error"

\* the key under which cache_analysis files an Analysis
BareKey(analysis) ==
    _generate_cache_key(analysis.query, analysis.asset_symbol, None, None)

ResultOf(r, a) == _ensure_dict(HandleError(a, GatherResult(a, task[r][a])))

SynthesisOf(r) ==
    _synthesize_results(ResultOf(r, "macro"), ResultOf(r, "technical"),
                        ResultOf(r, "sentiment"))

ConversationExists(r) ==
    /\ HasConversation(r)
    /\ req[r][1].session_id[1] \in DOMAIN _sessions
    /\ req[r][1].conversation_id[1]
           \in DOMAIN _sessions[req[r][1].session_id[1]].conversations

\* C22: a cache miss naming an existing conversation appends, after the three
\* specialists have settled and the synthesis is made, one user message with
\* the query and then one assistant message, and sets previous_outlook,
\* previous_confidence and previous_action from the synthesis; the turn is in
\* place when the cache entry is written, and also when that write fails.
C22_TurnStoredBeforeCacheWrite ==
    [][ \A r \in Reqs :
          /\ ( pc[r] = "gather" /\ pc'[r] \in {"store", "error"} /\ ConversationExists(r) ) =>
                LET sid == req[r][1].session_id[1]
                    cid == req[r][1].conversation_id[1]
                    old == _sessions[sid].conversations[cid]
                    new == _sessions'[sid].conversations[cid]
                    n == Len(old.messages)
                    synthesis == SynthesisOf(r)
                IN  /\ GatherReady(task[r])
                    /\ made'[r] # None
                    /\ turn'[r] \in {"stored", "unsaved"}
                    /\ Len(new.messages) = n + 2
                    /\ SubSeq(new.messages, 1, n) = old.messages
                    /\ new.messages[n + 1].role = "user"
                    /\ new.messages[n + 1].content = req[r][1].query
                    /\ new.messages[n + 2].role = "assistant"
                    /\ new.messages[n + 2].content = synthesis.final_response
                    /\ new.previous_outlook = Some(synthesis.outlook)
                    /\ new.previous_confidence = Some(synthesis.confidence)
                    /\ new.previous_action = Some(synthesis.trading_action)
                    /\ synthesis.outlook = made'[r][1].outlook
                    /\ synthesis.trading_action = made'[r][1].trading_action
                    /\ turn'[r] = "stored" => redis'[SessionKey(sid)].value = _sessions'[sid]
          /\ ( pc'[r] \in {"idle", "rag", "gather"} ) => turn'[r] = "none"
      ]_vars

\* C22 witness: the turn of a request went into an empty conversation and its
\* cache entry is written
C22_TurnThenCacheEntry ==
    \E r \in Reqs :
        /\ PastJoin(r)
        /\ turn[r] = "stored"
        /\ ConversationExists(r)
        /\ RequestKey(req[r][1]) \in DOMAIN cache
        /\ LET c == _sessions[req[r][1].session_id[1]].conversations[req[r][1].conversation_id[1]]
           IN  /\ Len(c.messages) = 2
               /\ c.messages[1].role = "user"
               /\ c.messages[2].role = "assistant"
               /\ c.previous_action = Some(ret[r][1].trading_action)

\* the messages of the conversation a request names, in a session table
MessagesOf(sessions, q) ==
    IF /\ q.session_id # None /\ q.conversation_id # None
       /\ q.session_id[1] \in DOMAIN sessions
       /\ q.conversation_id[1] \in DOMAIN sessions[q.session_id[1]].conversations
    THEN sessions[q.session_id[1]].conversations[q.conversation_id[1]].messages
    ELSE <<>>

IsProperPrefix(s, t) == Len(s) < Len(t) /\ SubSeq(t, 1, Len(s)) = s

\* C23: the query sent to the specialists is the original query, followed by
\* a block of prior context exactly when the request names a session and a
\* conversation that has messages; the user message stored, the query of the
\* Analysis and the cache key are made from the original query.
C23_ContextOnlyEnrichesSentQuery ==
    [][ \A r \in Reqs :
          /\ ( pc[r] = "idle" /\ pc'[r] = "rag" ) =>
                LET q == req'[r][1]
                IN  IF MessagesOf(_sessions, q) # <<>>
                    THEN IsProperPrefix(q.query, sent'[r][1])
                    ELSE sent'[r] = Some(q.query)
          /\ ( pc[r] = "gather" /\ pc'[r] \in {"store", "error"} ) =>
                LET q == req[r][1]
                    n == Len(MessagesOf(_sessions, q))
                IN  /\ made'[r][1].query = q.query
                    /\ turn'[r] \in {"stored", "unsaved"} =>
                           MessagesOf(_sessions', q)[n + 1].content = q.query
                    /\ \A k \in DOMAIN cache' :
                           ( k \notin DOMAIN cache \/ cache'[k] # cache[k] ) =>
                               k = _generate_cache_key(q.query, AssetOf(q),
                                       Some(q.timeframe), Some(RequestContext(q)))
      ]_vars

\* C23 witness: a request was sent to the specialists with prior context
\* appended, and its turn, its Analysis and its cache entry carry the query
C23_EnrichedButStoredPlain ==
    \E r \in Reqs :
        /\ PastJoin(r)
        /\ turn[r] = "stored"
        /\ sent[r][1] # req[r][1].query
        /\ ret[r][1].query = req[r][1].query
        /\ RequestKey(req[r][1]) \in DOMAIN cache
        /\ LET m == MessagesOf(_sessions, req[r][1])
           IN  /\ Len(m) = 4
               /\ m[3].role = "user"
               /\ m[3].content = req[r][1].query

\* the text of a specialist that is classified: its directional field when
\* the result has one, its summary otherwise
ClassifiedText(a) ==
    IF DirectionKey[a] \in DOMAIN syn_in[a] THEN syn_in[a][DirectionKey[a]]
    ELSE IF "summary" \in DOMAIN syn_in[a] THEN syn_in[a]["summary"]
    ELSE <<>>

HasKeyword(text, keywords) == \E k \in keywords : Contains(Lower(text), k)

\* C24: each specialist's direction is read from its directional field when
\* it has one and from its summary otherwise; a text with a bullish keyword is
\* bullish, whatever else it holds, a text with bearish keywords only is
\* bearish, a text without keyword, or empty, is neutral.
C24_DirectionFromFieldElseSummary ==
    syn_dir # None =>
        \A a \in Agents :
            LET text == ClassifiedText(a)
            IN  syn_dir[1][a] =
                    IF HasKeyword(text, BullishKeywords) THEN "bullish"
                    ELSE IF HasKeyword(text, BearishKeywords) THEN "bearish"
                    ELSE "neutral"

\* C24 witness: one summary with a bullish and a bearish keyword read as
\* bullish, one field read in place of a bullish summary, one empty text
C24_BullishWinsOverBearish ==
    /\ syn_dir # None
    /\ DirectionKey["macro"] \notin DOMAIN syn_in["macro"]
    /\ HasKeyword(syn_in["macro"]["summary"], BullishKeywords)
    /\ HasKeyword(syn_in["macro"]["summary"], BearishKeywords)
    /\ syn_dir[1]["macro"] = "bullish"
    /\ DirectionKey["technical"] \in DOMAIN syn_in["technical"]
    /\ HasKeyword(syn_in["technical"]["summary"], BullishKeywords)
    /\ syn_dir[1]["technical"] = "bearish"
    /\ DirectionKey["sentiment"] \notin DOMAIN syn_in["sentiment"]
    /\ syn_in["sentiment"]["summary"] = <<>>
    /\ syn_dir[1]["sentiment"] = "neutral"

\* three times the mean of the confidences reported to BuildEntity
EntReportedSum ==
    ent_in["macro"]["confidence"] + ent_in["technical"]["confidence"]
    + ent_in["sentiment"]["confidence"]

\* C25: when the three specialists report a confidence, the confidence of the
\* synthesis is the mean of the three as reported, a reported 0 included,
\* rounded to four places, and so is the overall_confidence of the Analysis
\* built from the same results, rounded the same way.
C25_SynthesisConfidenceIsReportedMean ==
    ( ent_out # None /\ \A a \in Agents : "confidence" \in DOMAIN ent_in[a] ) =>
        /\ ent_syn[1].confidence = Round4(EntReportedSum)
        /\ ent_syn[1].confidence = Round4(ent_out[1].overall_confidence3)

\* the query SynthesisAgent.analyze would send to the specialists for request
\* body q in the present state of its conversation
EnrichedNow(q) ==
    LET text == get_context_injection(_sessions, redis, Env(now, {}),
                                      q.session_id[1], q.conversation_id[1])
    IN  IF text # <<>>
        THEN q.query \o << "\n\n[Previous context:\n" >> \o text \o << "]" >>
        ELSE q.query

\* C26: an Analysis returned from the cache for a request that names a
\* conversation was synthesized from the query as the conversation's present
\* state enriches it: the request that computed it was sent to the specialists
\* with the prior-context text the conversation renders now.
C26_HitMatchesConversationState ==
    [][ \A r \in Reqs :
          ( pc[r] = "idle" /\ hit'[r] /\ req'[r][1].session_id # None ) =>
              \E p \in Reqs :
                  /\ PastJoin(p)
                  /\ req[p] = req'[r]
                  /\ ret[p] = ret'[r]
                  /\ sent[p] = Some(EnrichedNow(req'[r][1]))
      ]_vars

\* C27: every entry of the result cache holds the Analysis of a request under
\* the key analyze computes for that request, with its timeframe and, when the
\* request names them, its session_id and conversation_id; no entry sits under
\* a key that leaves them out.
C27_EntriesUnderRequestKeys ==
    \A k \in DOMAIN cache :
        \E r \in Reqs :
            /\ made[r] # None
            /\ cache[k].value = made[r][1]
            /\ k = RequestKey(req[r][1])

\* C28: when delete_session(id) has returned, whether or not the store's
\* delete raised, the manager's table has no session id, the store has no
\* entry session:{id}, and a get_session(id) that follows returns None.
C28_DeletedSessionIsGone ==
    [][ /\ CallDeleteSession(CMSessionIds) =>
             /\ cm_ret'[1].session_id \notin DOMAIN _sessions'
             /\ SessionKey(cm_ret'[1].session_id) \notin DOMAIN redis'
        /\ ( /\ cm_ret # None
             /\ cm_ret[1].op = "delete_session"
             /\ CallGetSession(CMSessionIds)
             /\ cm_ret'[1].session_id = cm_ret[1].session_id )
               => ~cm_ret'[1].ok
      ]_vars

\* the messages are whole turns, a user message and then its assistant reply,
\* and the previous_* values are those of the last reply
WholeTurns(conversation) ==
    LET m == conversation.messages
    IN  /\ Len(m) % 2 = 0
        /\ \A i \in 1..Len(m) : m[i].role = (IF i % 2 = 1 THEN "user" ELSE "assistant")
        /\ IF m = <<>> THEN conversation.previous_outlook = None
           ELSE /\ conversation.previous_outlook = Some(m[Len(m)].metadata.outlook)
                /\ conversation.previous_confidence = Some(m[Len(m)].metadata.confidence)
                /\ conversation.previous_action = Some(m[Len(m)].metadata.action)

\* C29: the manager's session and the store's copy of it hold whole turns
\* only: of each request the user message, the assistant message and the
\* previous_* update are all there or none of them is.
C29_TurnAllOrNothing ==
    /\ \A sid \in DOMAIN _sessions :
           \A cid \in DOMAIN _sessions[sid].conversations :
               WholeTurns(_sessions[sid].conversations[cid])
    /\ \A k \in DOMAIN redis :
           \A cid \in DOMAIN redis[k].value.conversations :
               WholeTurns(redis[k].value.conversations[cid])

\* C30: get_conversation_history returns, for a limit >= 0, the last
\* min(limit, n) of the conversation's n messages in their order, hence at most
\* limit messages, and the empty list when the session or the conversation
\* does not exist.
C30_HistoryIsLastLimit ==
    [][ CallGetHistory(CMSessionIds) =>
          LET limit == cm_ret'[1].value[1]
              history == cm_ret'[1].value[2]
          IN  /\ Len(history) <= limit
              /\ IF cm_ret'[1].ok
                 THEN LET m == _sessions'[cm_ret'[1].session_id]
                                   .conversations[cm_ret'[1].conversation_id].messages
                          n == Len(m)
                          k == IF limit < n THEN limit ELSE n
                      IN  history = SubSeq(m, n - k + 1, n)
                 ELSE history = <<>>
      ]_vars

====
